---- MODULE Spec2Model ----
(***************************************************************************)
(* Turn-taking demonstrations of 01_LSP/Class/06_Thread.                   *)
(*                                                                         *)
(*   09_Print_Odd_even.c        print_odd / print_even alternate on a      *)
(*                              mutex + condition variable (Spec,          *)
(*                              FairSpec, TwiceSpec)                       *)
(*   12_ABCDabcdWiteFileSync.c  write_caps / write_smalls alternate on a   *)
(*                              mutex + condition variable (LetterSpec)    *)
(*                                                                         *)
(* Every C statement that touches shared state is one action; a thread's   *)
(* position is its pc label.                                               *)
(***************************************************************************)
EXTENDS Integers, Sequences, FiniteSets, TLC

\* ------------------------------------------------------------------------
\* Bounds and program constants
\* ------------------------------------------------------------------------

\* #define MAX 100 (09_Print_Odd_even.c)
MAX == 100

\* The limits explored besides MAX itself: 0 .. MaxLimit
MaxLimit == 5

\* two participants: print_odd (role 0) and print_even (role 1)
N == 2

Limits == (0 .. MaxLimit) \cup {MAX}

NoThread == "none"

NoNotify == [by |-> NoThread, kind |-> "none", at |-> 0, woke |-> {}, left |-> {}]

\* ------------------------------------------------------------------------
\* State
\* ------------------------------------------------------------------------
VARIABLES
    \* --- 09_Print_Odd_even.c
    limit,        \* the value MAX stands for in this run
    counter,      \* int counter = 1
    is_odd_turn,  \* bool is_odd_turn = true
    lock,         \* owner of pthread_mutex_t lock, or NoThread
    cond,         \* threads blocked in pthread_cond_wait(&cond, ..)
    pc,           \* position of print_odd / print_even
    mainpc,       \* position of main
    out,          \* lines printed by the two threads, <<role, value>>
    lastWake,     \* how each thread last left pthread_cond_wait in its
                  \* current pass through the wait loop
    notified,     \* the latest condition notification issued, if any
    termNotifies, \* notifications issued with counter > MAX so far
    runs,         \* which run of the program this is (1 or 2)
    firstOut,     \* output of the first run, once a second one is started
    sched,        \* the thread that locked the mutex first in this run
    firstSched,   \* the same of the first run, once a second one is started
    \* --- 12_ABCDabcdWiteFileSync.c
    turn,         \* int turn = 0: 0 for capital thread, 1 for small thread
    mutex,        \* owner of pthread_mutex_t mutex, or NoThread
    wcond,        \* threads blocked in pthread_cond_wait(&cond, &mutex)
    ch,           \* each thread's loop variable char ch
    wpc,          \* position of write_caps / write_smalls
    wmainpc,      \* position of main
    fp,           \* FILE *fp: "null", "open" or "closed"
    file,         \* the characters written to output.txt so far
    minit,        \* pthread_mutex_t mutex: "uninit", "ok", "failed" or
                  \* "destroyed"
    cinit,        \* pthread_cond_t cond: the same
    \* --- 10_Print_Odd_even.c (its MAX is limit as well)
    counter_p,    \* int counter = 1
    lock_p,       \* owner of pthread_mutex_t lock, or NoThread
    pc_p,         \* position of the two print_numbers threads
    mainpc_p,     \* position of main
    out_p,        \* lines printed, <<is_odd, value>>
    \* --- 11_ABCDabcdWiteFile.c
    lock_m,       \* owner of pthread_mutex_t lock, or NoThread
    ch_m,         \* the loop variable ch of each thread
    pc_m,         \* position of write_caps and write_smalls
    mainpc_m,     \* position of main
    fp_m,         \* FILE *fp: "unset", "open", "null", "closed"
    file_m,       \* characters written to output.txt
    first_m,      \* history: the thread that locked first, or NoThread
    \* --- sem_init.c, process1.c, process2.c
    semset,       \* TRUE once the semaphore set exists
    semval,       \* value of semaphore 0 of the set
    initpc,       \* position of sem_init
    spc,          \* position of each process1 / process2 instance
    sfile,        \* file.txt: the writes in order, <<instance, bytes>>
    \* --- 01_process.c, two instances
    zset,         \* TRUE once the set of key 5 exists
    zsem,         \* value of semaphore 2 of that set
    zpc,          \* position of each instance
    zi,           \* the loop variable i of each instance
    zlast,        \* file.txt: the instance that wrote its last character, or 0
    zruns,        \* file.txt: the number of separate runs of each instance's
                  \* characters in it
    \* --- 02_Pipe2WayCommunication.c
    p2c,          \* bytes in the parent-to-child pipe, as a sequence of messages
    c2p,          \* bytes in the child-to-parent pipe
    ends,         \* for each process the descriptors it holds open
    xpc,          \* position of the parent and of the child
    got,          \* what each process's read returned: "none", a message, "eof"
    calls,        \* the printf calls in the order they were made
    tty,          \* TRUE: stdout is a terminal (line buffered); FALSE: fully
                  \* buffered
    sbuf,         \* the stdio buffer of each process
    sout,         \* what has reached stdout
    \* --- My_Delete.c
    dlock,        \* owner of pthread_mutex_t lock, or NoThread
    dpc,          \* position of writer_thread and reader_thread
    dmainpc,      \* position of main
    dopen,        \* the threads that have shared.txt open
    dexists,      \* TRUE when shared.txt exists
    dfile,        \* the lines of shared.txt
    dnext,        \* the reader's position in the file
    dread,        \* the lines the reader has printed
    dfailed       \* history: the threads whose fopen failed

oeVars == <<limit, counter, is_odd_turn, lock, cond, pc, mainpc, out,
            lastWake, notified, termNotifies, runs, firstOut, sched,
            firstSched>>

lwVars == <<turn, mutex, wcond, ch, wpc, wmainpc, fp, file>>

liVars == <<minit, cinit>>

pnVars == <<counter_p, lock_p, pc_p, mainpc_p, out_p>>

moVars == <<lock_m, ch_m, pc_m, mainpc_m, fp_m, file_m, first_m>>

smVars == <<semset, semval, initpc, spc, sfile>>

wzVars == <<zset, zsem, zpc, zi, zlast, zruns>>

ppVars == <<p2c, c2p, ends, xpc, got, calls, tty, sbuf, sout>>

wrVars == <<dlock, dpc, dmainpc, dopen, dexists, dfile, dnext, dread, dfailed>>

vars == <<oeVars, lwVars, liVars, pnVars, moVars, smVars, wzVars, ppVars,
          wrVars>>

\* what the actions of one program leave alone: the other programs
notOE == <<lwVars, liVars, pnVars, moVars, smVars, wzVars, ppVars, wrVars>>

notLW == <<oeVars, pnVars, moVars, smVars, wzVars, ppVars, wrVars>>

notPN == <<oeVars, lwVars, liVars, moVars, smVars, wzVars, ppVars, wrVars>>

notMO == <<oeVars, lwVars, liVars, pnVars, smVars, wzVars, ppVars, wrVars>>

notSM == <<oeVars, lwVars, liVars, pnVars, moVars, wzVars, ppVars, wrVars>>

notWZ == <<oeVars, lwVars, liVars, pnVars, moVars, smVars, ppVars, wrVars>>

notPP == <<oeVars, lwVars, liVars, pnVars, moVars, smVars, wzVars, wrVars>>

notWR == <<oeVars, lwVars, liVars, pnVars, moVars, smVars, wzVars, ppVars>>

\* ------------------------------------------------------------------------
\* 09_Print_Odd_even.c
\* ------------------------------------------------------------------------
Threads == {"print_odd", "print_even"}

Role(t) == IF t = "print_odd" THEN 0 ELSE 1

\* the positions at which a thread owns the mutex
Holding == {"while", "cond_wait", "if", "break", "printf", "incr", "turn",
            "signal", "unlock"}

\* the positions of one step: print, update counter and turn, notify, unlock
StepPcs == {"printf", "incr", "turn", "signal", "unlock"}

\* is_odd_turn for print_odd, !is_odd_turn for print_even
MyTurn(t) == IF t = "print_odd" THEN is_odd_turn ELSE ~is_odd_turn

\* faults of the wait test: the limit test left out, the turn test inverted,
\* no waiting at all
WaitCond_NoLimit(t) == ~MyTurn(t)

WaitCond_Inverted(t) == MyTurn(t) /\ counter <= limit

WaitCond_Never(t) == FALSE

\* while (!is_odd_turn && counter <= MAX)  /  while (is_odd_turn && counter <= MAX)
WaitCond(t) == ~MyTurn(t) /\ counter <= limit

\* fault of the exit test: off by one
Terminal_OffByOne == counter > limit + 1

\* if (counter > MAX)
Terminal == counter > limit

\* fault of the mutex: it excludes nobody
CanLock_Always(t) == TRUE

\* pthread_mutex_lock returns only when the mutex is free
CanLock(t) == lock = NoThread

\* fault of the increment: two at a time
Incr_Twice(c) == c + 2

\* counter++
Incr(c) == c + 1

\* fault of the hand-over: the turn stays with the thread that had it
TurnAfter_Same(t) == (t = "print_odd")

\* is_odd_turn = false (print_odd)  /  is_odd_turn = true (print_even)
TurnAfter(t) == (t = "print_even")

\* fault of the notification: it wakes nobody
CondSignal_Lost(waiters) == {{}}

\* pthread_cond_signal: unblocks at least one of the blocked threads, if any
CondSignal(waiters) ==
    IF waiters = {} THEN {{}} ELSE {W \in SUBSET waiters : W # {}}

\* fault of the wait: an if instead of a while around pthread_cond_wait
AfterWait_If == "if"

\* the statement a thread continues with when pthread_cond_wait returns:
\* the enclosing while test
AfterWait == "while"

\* ------------------------------------------------------------------------
\* 12_ABCDabcdWiteFileSync.c: threads, characters, tests
\* ------------------------------------------------------------------------
Writers == {"write_caps", "write_smalls"}

\* 'A', 'Z', 'a', 'z'
ChA == 65

ChZ == 90

Cha == 97

Chz == 122

\* 0 for capital thread, 1 for small thread
WRole(t) == IF t = "write_caps" THEN 0 ELSE 1

\* for (char ch = 'A'; ...)  /  for (char ch = 'a'; ...)
FirstCh(t) == IF t = "write_caps" THEN ChA ELSE Cha

\* ch <= 'Z'  /  ch <= 'z'
LastCh(t) == IF t = "write_caps" THEN ChZ ELSE Chz

\* fault of the wait test: no waiting at all
WWaitCond_Never(t) == FALSE

\* while (turn != 0)  /  while (turn != 1)
WWaitCond(t) == turn # WRole(t)

\* fault of the hand-over: a writer gives the turn back to itself
WTurnAfter_Same(t) == IF t = "write_caps" THEN 0 ELSE 1

\* turn = 1 (write_caps)  /  turn = 0 (write_smalls)
WTurnAfter(t) == IF t = "write_caps" THEN 1 ELSE 0

\* the file-scope initialisers of 09_Print_Odd_even.c, main not yet started
OddEvenStart ==
    /\ counter = 1
    /\ is_odd_turn = TRUE
    /\ lock = NoThread
    /\ cond = {}
    /\ pc = [t \in Threads |-> "unborn"]
    /\ mainpc = "create_t1"
    /\ out = <<>>
    /\ lastWake = [t \in Threads |-> "none"]
    /\ notified = NoNotify
    /\ termNotifies = 0
    /\ runs = 1
    /\ firstOut = <<>>
    /\ sched = NoThread
    /\ firstSched = NoThread

\* the file-scope initialisers of 12_ABCDabcdWiteFileSync.c, main not yet
\* started
LetterStart ==
    /\ turn = 0
    /\ mutex = NoThread
    /\ wcond = {}
    /\ ch = [t \in Writers |-> FirstCh(t)]
    /\ wpc = [t \in Writers |-> "unborn"]
    /\ wmainpc = "fopen"
    /\ fp = "null"
    /\ file = <<>>
    /\ minit = "uninit"
    /\ cinit = "uninit"

\* ------------------------------------------------------------------------
\* 10_Print_Odd_even.c: threads, tests
\* ------------------------------------------------------------------------
\* t1 is started with &odd (1), t2 with &even (0)
Pollers == {"t1", "t2"}

\* int is_odd = *(int*)arg
IsOdd(t) == IF t = "t1" THEN 1 ELSE 0

\* fault of the parity test: every thread prints every value
ParityMatch_Always(t) == TRUE

\* (counter % 2 == 1 && is_odd) || (counter % 2 == 0 && !is_odd)
ParityMatch(t) ==
    \/ (counter_p % 2 = 1 /\ IsOdd(t) # 0)
    \/ (counter_p % 2 = 0 /\ IsOdd(t) = 0)

\* fault of the exit path: break without pthread_mutex_unlock
BreakUnlock_Missing(t) == t

\* the owner of the mutex after pthread_mutex_unlock(&lock); break;
BreakUnlock(t) == NoThread

\* the file-scope initialisers of 10_Print_Odd_even.c, main not yet started
PollStart ==
    /\ counter_p = 1
    /\ lock_p = NoThread
    /\ pc_p = [t \in Pollers |-> "unborn"]
    /\ mainpc_p = "create_t1"
    /\ out_p = <<>>

\* ------------------------------------------------------------------------
\* 11_ABCDabcdWiteFile.c: the mutex
\* ------------------------------------------------------------------------
\* fault of the mutex: pthread_mutex_lock never waits
MutexFree_Always == TRUE

\* pthread_mutex_lock(&lock) returns only when nobody owns the mutex
MutexFree == lock_m = NoThread

\* the file-scope variables of 11_ABCDabcdWiteFile.c, main not yet started
MutexOnlyStart ==
    /\ lock_m = NoThread
    /\ ch_m = [t \in Writers |-> FirstCh(t)]
    /\ pc_m = [t \in Writers |-> "unborn"]
    /\ mainpc_m = "fopen"
    /\ fp_m = "unset"
    /\ file_m = <<>>
    /\ first_m = NoThread

\* ------------------------------------------------------------------------
\* sem_init.c, process1.c, process2.c: instances and semaphore operations
\* ------------------------------------------------------------------------
\* number of process1 / process2 instances started
NProcs == 3

Procs == 1 .. NProcs

\* odd instances run process1, even instances process2
Kind(p) == IF p % 2 = 1 THEN 1 ELSE 2

\* the byte count handed to write(): 25 in process1, 30 in process2
WriteLen(p) == IF Kind(p) = 1 THEN 25 ELSE 30

\* struct sembuf lock = {0, -1, 0} and unlock = {0, 1, 0}: the sem_op fields
LockOp == -1

UnlockOp == 1

\* fault of semop: a negative sem_op never waits
SemOpReady_Always(v, op) == TRUE

\* semop with sem_flg 0 goes through when the value would not become negative
SemOpReady(v, op) == v + op >= 0

\* the value semop leaves behind
SemOpApply(v, op) == v + op

\* no semaphore set yet, nothing started, file.txt empty
SemStart ==
    /\ semset = FALSE
    /\ semval = 0
    /\ initpc = "semget"
    /\ spc = [p \in Procs |-> "semget"]
    /\ sfile = <<>>

\* ------------------------------------------------------------------------
\* 01_process.c: the two instances
\* ------------------------------------------------------------------------
ZProcs == {1, 2}

\* strlen of char ch[] = "Anil Prajapati"
ZLen == 14

\* semop with sem_op 0 goes through when the value is zero
WaitZeroReady(v) == v = 0

\* no semaphore set yet, nothing started, file.txt empty
WaitZeroStart ==
    /\ zset = FALSE
    /\ zsem = 0
    /\ zpc = [p \in ZProcs |-> "semget"]
    /\ zi = [p \in ZProcs |-> 0]
    /\ zlast = 0
    /\ zruns = [p \in ZProcs |-> 0]

\* ------------------------------------------------------------------------
\* 02_Pipe2WayCommunication.c: processes, descriptors, pipe operations
\* ------------------------------------------------------------------------
PipeProcs == {"parent", "child"}

\* p2c[0], p2c[1], c2p[0], c2p[1]
AllEnds == {"p2c_r", "p2c_w", "c2p_r", "c2p_w"}

\* the processes that hold descriptor e open
Holders(e) == {q \in PipeProcs : e \in ends[q]}

\* fault of read: it returns at once, whatever the pipe holds
ReadReady_Always(buf, writers) == TRUE

\* read on a pipe returns when there is data or when no write end is open
ReadReady(buf, writers) == buf # <<>> \/ writers = {}

\* what read(fd, buf, sizeof(buf)) delivers: the first message, or end of file
ReadResult(buf) == IF buf # <<>> THEN Head(buf) ELSE "eof"

\* the pipe after the read
ReadRest(buf) == IF buf # <<>> THEN Tail(buf) ELSE buf

\* main not yet started: no pipes, no child, nothing printed; stdout is a
\* terminal (TRUE) or not (FALSE), one of ttys
PipeStart(ttys) ==
    /\ p2c = <<>>
    /\ c2p = <<>>
    /\ ends = [q \in PipeProcs |-> {}]
    /\ xpc = [q \in PipeProcs |-> IF q = "parent" THEN "pipe" ELSE "unborn"]
    /\ got = [q \in PipeProcs |-> "none"]
    /\ calls = <<>>
    /\ tty \in ttys
    /\ sbuf = [q \in PipeProcs |-> <<>>]
    /\ sout = <<>>

\* ------------------------------------------------------------------------
\* My_Delete.c: threads, the mutex, the file
\* ------------------------------------------------------------------------
DThreads == {"writer_thread", "reader_thread"}

\* "Hello from writer thread!\n"
HelloLine == "Hello from writer thread!"

\* fault of the error path: return without pthread_mutex_unlock
FailUnlock_Missing(t) == t

\* the owner of the mutex after perror(...); pthread_mutex_unlock(&lock);
FailUnlock(t) == NoThread

\* fopen(filename, "w") creates the file; fopen(filename, "r") needs it
CanOpen(t) == t = "writer_thread" \/ dexists

\* main not yet started; shared.txt may be left over from an earlier run
\* (TRUE) or not exist (FALSE), one of olds
WriterReaderStart(olds) ==
    /\ dlock = NoThread
    /\ dpc = [t \in DThreads |-> "unborn"]
    /\ dmainpc = "mutex_init"
    /\ dopen = {}
    /\ dexists \in olds
    /\ dfile = IF dexists THEN <<HelloLine>> ELSE <<>>
    /\ dnext = 1
    /\ dread = <<>>
    /\ dfailed = {}

\* every program before its main has started
AllStart ==
    /\ OddEvenStart
    /\ LetterStart
    /\ PollStart
    /\ MutexOnlyStart
    /\ SemStart
    /\ WaitZeroStart
    /\ PipeStart({TRUE})
    /\ WriterReaderStart({FALSE})

Init ==
    /\ limit \in Limits
    /\ AllStart

\* pthread_mutex_lock(&lock)
MutexLock(t) ==
    /\ pc[t] = "lock"
    /\ CanLock(t)
    /\ lock' = t
    /\ sched' = IF sched = NoThread THEN t ELSE sched
    /\ pc' = [pc EXCEPT ![t] = "while"]
    /\ UNCHANGED <<limit, counter, is_odd_turn, cond, mainpc, out, lastWake,
                   notified, termNotifies, runs, firstOut, firstSched>>
    /\ UNCHANGED notOE

\* while (<not my turn> && counter <= MAX)
WhileTest(t) ==
    /\ pc[t] = "while"
    /\ pc' = [pc EXCEPT ![t] = IF WaitCond(t) THEN "cond_wait" ELSE "if"]
    /\ UNCHANGED <<limit, counter, is_odd_turn, lock, cond, mainpc, out,
                   lastWake, notified, termNotifies, runs, firstOut, sched, firstSched>>
    /\ UNCHANGED notOE

\* pthread_cond_wait(&cond, &lock): release the mutex and block, atomically
CondWait(t) ==
    /\ pc[t] = "cond_wait"
    /\ lock' = NoThread
    /\ cond' = cond \cup {t}
    /\ pc' = [pc EXCEPT ![t] = "blocked"]
    /\ UNCHANGED <<limit, counter, is_odd_turn, mainpc, out, lastWake,
                   notified, termNotifies, runs, firstOut, sched, firstSched>>
    /\ UNCHANGED notOE

\* pthread_cond_wait may return without any notification
SpuriousWake(t) ==
    /\ pc[t] = "blocked"
    /\ t \in cond
    /\ cond' = cond \ {t}
    /\ pc' = [pc EXCEPT ![t] = "woken"]
    /\ lastWake' = [lastWake EXCEPT ![t] = "spurious"]
    /\ UNCHANGED <<limit, counter, is_odd_turn, lock, mainpc, out, notified, termNotifies,
                   runs, firstOut, sched, firstSched>>
    /\ UNCHANGED notOE

\* pthread_cond_wait re-acquires the mutex before it returns
WaitReturn(t) ==
    /\ pc[t] = "woken"
    /\ CanLock(t)
    /\ lock' = t
    /\ pc' = [pc EXCEPT ![t] = AfterWait]
    /\ UNCHANGED <<limit, counter, is_odd_turn, cond, mainpc, out, lastWake,
                   notified, termNotifies, runs, firstOut, sched, firstSched>>
    /\ UNCHANGED notOE

\* if (counter > MAX)
IfTest(t) ==
    /\ pc[t] = "if"
    /\ pc' = [pc EXCEPT ![t] = IF Terminal THEN "break" ELSE "printf"]
    /\ lastWake' = [lastWake EXCEPT ![t] = "none"]
    /\ UNCHANGED <<limit, counter, is_odd_turn, lock, cond, mainpc, out,
                   notified, termNotifies, runs, firstOut, sched, firstSched>>
    /\ UNCHANGED notOE

\* pthread_mutex_unlock(&lock); break;  ... return NULL;
UnlockBreak(t) ==
    /\ pc[t] = "break"
    /\ lock' = NoThread
    /\ pc' = [pc EXCEPT ![t] = "returned"]
    /\ UNCHANGED <<limit, counter, is_odd_turn, cond, mainpc, out, lastWake,
                   notified, termNotifies, runs, firstOut, sched, firstSched>>
    /\ UNCHANGED notOE

\* printf("Odd Thread: %d\n", counter)  /  printf("Even Thread: %d\n", counter)
Printf(t) ==
    /\ pc[t] = "printf"
    /\ out' = Append(out, <<Role(t), counter>>)
    /\ pc' = [pc EXCEPT ![t] = "incr"]
    /\ UNCHANGED <<limit, counter, is_odd_turn, lock, cond, mainpc, lastWake,
                   notified, termNotifies, runs, firstOut, sched, firstSched>>
    /\ UNCHANGED notOE

\* counter++
CounterIncr(t) ==
    /\ pc[t] = "incr"
    /\ counter' = Incr(counter)
    /\ pc' = [pc EXCEPT ![t] = "turn"]
    /\ UNCHANGED <<limit, is_odd_turn, lock, cond, mainpc, out, lastWake,
                   notified, termNotifies, runs, firstOut, sched, firstSched>>
    /\ UNCHANGED notOE

\* is_odd_turn = false  /  is_odd_turn = true
SetTurn(t) ==
    /\ pc[t] = "turn"
    /\ is_odd_turn' = TurnAfter(t)
    /\ pc' = [pc EXCEPT ![t] = "signal"]
    /\ UNCHANGED <<limit, counter, lock, cond, mainpc, out, lastWake,
                   notified, termNotifies, runs, firstOut, sched, firstSched>>
    /\ UNCHANGED notOE

\* pthread_cond_signal(&cond)
Signal(t) ==
    /\ pc[t] = "signal"
    /\ \E W \in CondSignal(cond) :
          /\ cond' = cond \ W
          /\ pc' = [u \in Threads |->
                      IF u = t THEN "unlock"
                      ELSE IF u \in W THEN "woken" ELSE pc[u]]
          /\ lastWake' = [u \in Threads |->
                            IF u \in W THEN "signal" ELSE lastWake[u]]
          /\ notified' = [by |-> t, kind |-> "signal", at |-> counter,
                          woke |-> W, left |-> cond \ W]
    /\ termNotifies' = IF Terminal THEN termNotifies + 1 ELSE termNotifies
    /\ UNCHANGED <<limit, counter, is_odd_turn, lock, mainpc, out, runs,
                   firstOut, sched, firstSched>>
    /\ UNCHANGED notOE

\* pthread_mutex_unlock(&lock), then back to the top of while (1)
MutexUnlock(t) ==
    /\ pc[t] = "unlock"
    /\ lock' = NoThread
    /\ pc' = [pc EXCEPT ![t] = "lock"]
    /\ UNCHANGED <<limit, counter, is_odd_turn, cond, mainpc, out, lastWake,
                   notified, termNotifies, runs, firstOut, sched, firstSched>>
    /\ UNCHANGED notOE

\* everything a thread does of its own accord (a spurious wake-up is not)
ThreadStep(t) ==
    \/ MutexLock(t)
    \/ WhileTest(t)
    \/ CondWait(t)
    \/ WaitReturn(t)
    \/ IfTest(t)
    \/ UnlockBreak(t)
    \/ Printf(t)
    \/ CounterIncr(t)
    \/ SetTurn(t)
    \/ Signal(t)
    \/ MutexUnlock(t)

\* pthread_create(&t1, NULL, print_odd, NULL)
CreateT1 ==
    /\ mainpc = "create_t1"
    /\ pc' = [pc EXCEPT !["print_odd"] = "lock"]
    /\ mainpc' = "create_t2"
    /\ UNCHANGED <<limit, counter, is_odd_turn, lock, cond, out, lastWake,
                   notified, termNotifies, runs, firstOut, sched, firstSched>>
    /\ UNCHANGED notOE

\* pthread_create(&t2, NULL, print_even, NULL)
CreateT2 ==
    /\ mainpc = "create_t2"
    /\ pc' = [pc EXCEPT !["print_even"] = "lock"]
    /\ mainpc' = "join_t1"
    /\ UNCHANGED <<limit, counter, is_odd_turn, lock, cond, out, lastWake,
                   notified, termNotifies, runs, firstOut, sched, firstSched>>
    /\ UNCHANGED notOE

\* pthread_join(t1, NULL)
JoinT1 ==
    /\ mainpc = "join_t1"
    /\ pc["print_odd"] = "returned"
    /\ mainpc' = "join_t2"
    /\ UNCHANGED <<limit, counter, is_odd_turn, lock, cond, pc, out, lastWake,
                   notified, termNotifies, runs, firstOut, sched, firstSched>>
    /\ UNCHANGED notOE

\* pthread_join(t2, NULL)
JoinT2 ==
    /\ mainpc = "join_t2"
    /\ pc["print_even"] = "returned"
    /\ mainpc' = "finished"
    /\ UNCHANGED <<limit, counter, is_odd_turn, lock, cond, pc, out, lastWake,
                   notified, termNotifies, runs, firstOut, sched, firstSched>>
    /\ UNCHANGED notOE

\* printf("Both threads finished printing up to %d.\n", MAX); return 0;
MainReturn ==
    /\ mainpc = "finished"
    /\ mainpc' = "exited"
    /\ UNCHANGED <<limit, counter, is_odd_turn, lock, cond, pc, out, lastWake,
                   notified, termNotifies, runs, firstOut, sched, firstSched>>
    /\ UNCHANGED notOE

MainStep == CreateT1 \/ CreateT2 \/ JoinT1 \/ JoinT2 \/ MainReturn

Next ==
    \/ MainStep
    \/ \E t \in Threads : ThreadStep(t)
    \/ \E t \in Threads : SpuriousWake(t)

Spec == Init /\ [][Next]_vars

\* Scheduling: a thread or main that can take a step eventually takes one.
\* Nothing obliges a spurious wake-up to happen, and spurious wake-ups do not
\* go on forever.
Fairness ==
    /\ WF_vars(MainStep)
    /\ \A t \in Threads : WF_vars(ThreadStep(t))
    /\ <>[][~ \E t \in Threads : SpuriousWake(t)]_vars

FairSpec == Spec /\ Fairness

\* The program run a second time with the same MAX: every file-scope object
\* starts from its initialiser again; the first run's output is kept aside.
Rerun ==
    /\ mainpc = "exited"
    /\ runs = 1
    /\ runs' = 2
    /\ firstOut' = out
    /\ firstSched' = sched
    /\ sched' = NoThread
    /\ counter' = 1
    /\ is_odd_turn' = TRUE
    /\ lock' = NoThread
    /\ cond' = {}
    /\ pc' = [t \in Threads |-> "unborn"]
    /\ mainpc' = "create_t1"
    /\ out' = <<>>
    /\ lastWake' = [t \in Threads |-> "none"]
    /\ notified' = NoNotify
    /\ termNotifies' = 0
    /\ UNCHANGED limit
    /\ UNCHANGED notOE

NextTwice == Next \/ Rerun

TwiceSpec == Init /\ [][NextTwice]_vars

\* ------------------------------------------------------------------------
\* 12_ABCDabcdWiteFileSync.c
\* ------------------------------------------------------------------------

\* for (...; ch <= 'Z'; ...)  /  for (...; ch <= 'z'; ...), else return NULL
WFor(t) ==
    /\ wpc[t] = "for"
    /\ wpc' = [wpc EXCEPT ![t] = IF ch[t] <= LastCh(t) THEN "lock"
                                 ELSE "returned"]
    /\ UNCHANGED <<turn, mutex, wcond, ch, wmainpc, fp, file>>
    /\ UNCHANGED liVars
    /\ UNCHANGED notLW

\* pthread_mutex_lock(&mutex)
WLock(t) ==
    /\ wpc[t] = "lock"
    /\ mutex = NoThread
    /\ mutex' = t
    /\ wpc' = [wpc EXCEPT ![t] = "while"]
    /\ UNCHANGED <<turn, wcond, ch, wmainpc, fp, file>>
    /\ UNCHANGED liVars
    /\ UNCHANGED notLW

\* while (turn != 0)  /  while (turn != 1)
WWhile(t) ==
    /\ wpc[t] = "while"
    /\ wpc' = [wpc EXCEPT ![t] = IF WWaitCond(t) THEN "cond_wait"
                                 ELSE "fputc"]
    /\ UNCHANGED <<turn, mutex, wcond, ch, wmainpc, fp, file>>
    /\ UNCHANGED liVars
    /\ UNCHANGED notLW

\* pthread_cond_wait(&cond, &mutex): release the mutex and block, atomically
WCondWait(t) ==
    /\ wpc[t] = "cond_wait"
    /\ mutex' = NoThread
    /\ wcond' = wcond \cup {t}
    /\ wpc' = [wpc EXCEPT ![t] = "blocked"]
    /\ UNCHANGED <<turn, ch, wmainpc, fp, file>>
    /\ UNCHANGED liVars
    /\ UNCHANGED notLW

\* pthread_cond_wait may return without any notification
WSpuriousWake(t) ==
    /\ wpc[t] = "blocked"
    /\ t \in wcond
    /\ wcond' = wcond \ {t}
    /\ wpc' = [wpc EXCEPT ![t] = "woken"]
    /\ UNCHANGED <<turn, mutex, ch, wmainpc, fp, file>>
    /\ UNCHANGED liVars
    /\ UNCHANGED notLW

\* pthread_cond_wait re-acquires the mutex before it returns to the while
WWaitReturn(t) ==
    /\ wpc[t] = "woken"
    /\ mutex = NoThread
    /\ mutex' = t
    /\ wpc' = [wpc EXCEPT ![t] = "while"]
    /\ UNCHANGED <<turn, wcond, ch, wmainpc, fp, file>>
    /\ UNCHANGED liVars
    /\ UNCHANGED notLW

\* printf("%c", ch); fputc(ch, fp); fflush(fp);
WFputc(t) ==
    /\ wpc[t] = "fputc"
    /\ file' = Append(file, ch[t])
    /\ wpc' = [wpc EXCEPT ![t] = "turn"]
    /\ UNCHANGED <<turn, mutex, wcond, ch, wmainpc, fp>>
    /\ UNCHANGED liVars
    /\ UNCHANGED notLW

\* turn = 1  /  turn = 0
WSetTurn(t) ==
    /\ wpc[t] = "turn"
    /\ turn' = WTurnAfter(t)
    /\ wpc' = [wpc EXCEPT ![t] = "signal"]
    /\ UNCHANGED <<mutex, wcond, ch, wmainpc, fp, file>>
    /\ UNCHANGED liVars
    /\ UNCHANGED notLW

\* pthread_cond_signal(&cond)
WSignal(t) ==
    /\ wpc[t] = "signal"
    /\ \E W \in CondSignal(wcond) :
          /\ wcond' = wcond \ W
          /\ wpc' = [u \in Writers |->
                       IF u = t THEN "unlock"
                       ELSE IF u \in W THEN "woken" ELSE wpc[u]]
    /\ UNCHANGED <<turn, mutex, ch, wmainpc, fp, file>>
    /\ UNCHANGED liVars
    /\ UNCHANGED notLW

\* pthread_mutex_unlock(&mutex); then the for loop's ch++
WUnlock(t) ==
    /\ wpc[t] = "unlock"
    /\ mutex' = IF mutex = t THEN NoThread ELSE mutex
    /\ ch' = [ch EXCEPT ![t] = ch[t] + 1]
    /\ wpc' = [wpc EXCEPT ![t] = "for"]
    /\ UNCHANGED <<turn, wcond, wmainpc, fp, file>>
    /\ UNCHANGED liVars
    /\ UNCHANGED notLW

WriterStep(t) ==
    \/ WFor(t)
    \/ WLock(t)
    \/ WWhile(t)
    \/ WCondWait(t)
    \/ WWaitReturn(t)
    \/ WFputc(t)
    \/ WSetTurn(t)
    \/ WSignal(t)
    \/ WUnlock(t)

\* fp = fopen("output.txt", "w") succeeds
FopenOk ==
    /\ wmainpc = "fopen"
    /\ fp' = "open"
    /\ wmainpc' = "mutex_init"
    /\ UNCHANGED <<turn, mutex, wcond, ch, wpc, file>>
    /\ UNCHANGED liVars
    /\ UNCHANGED notLW

\* fp = fopen(..) fails: if (!fp) { perror("fopen"); return 1; }
FopenFail ==
    /\ wmainpc = "fopen"
    /\ fp' = "null"
    /\ wmainpc' = "exit1"
    /\ UNCHANGED <<turn, mutex, wcond, ch, wpc, file>>
    /\ UNCHANGED liVars
    /\ UNCHANGED notLW

\* pthread_mutex_init(&mutex, NULL) succeeds
WMutexInit ==
    /\ wmainpc = "mutex_init"
    /\ mutex' = NoThread
    /\ minit' = "ok"
    /\ wmainpc' = "cond_init"
    /\ UNCHANGED <<turn, wcond, ch, wpc, fp, file, cinit>>
    /\ UNCHANGED notLW

\* pthread_cond_init(&cond, NULL) succeeds
WCondInit ==
    /\ wmainpc = "cond_init"
    /\ wcond' = {}
    /\ cinit' = "ok"
    /\ wmainpc' = "create_t1"
    /\ UNCHANGED <<turn, mutex, ch, wpc, fp, file, minit>>
    /\ UNCHANGED notLW

\* pthread_create(&t1, NULL, write_caps, NULL)
WCreateT1 ==
    /\ wmainpc = "create_t1"
    /\ wpc' = [wpc EXCEPT !["write_caps"] = "for"]
    /\ wmainpc' = "create_t2"
    /\ UNCHANGED <<turn, mutex, wcond, ch, fp, file>>
    /\ UNCHANGED liVars
    /\ UNCHANGED notLW

\* pthread_create(&t2, NULL, write_smalls, NULL)
WCreateT2 ==
    /\ wmainpc = "create_t2"
    /\ wpc' = [wpc EXCEPT !["write_smalls"] = "for"]
    /\ wmainpc' = "join_t1"
    /\ UNCHANGED <<turn, mutex, wcond, ch, fp, file>>
    /\ UNCHANGED liVars
    /\ UNCHANGED notLW

\* fault of the join: it does not wait for the thread
Joinable_NoWait(t) == TRUE

\* pthread_join returns once the thread has returned
Joinable(t) == wpc[t] = "returned"

\* pthread_join(t1, NULL)
WJoinT1 ==
    /\ wmainpc = "join_t1"
    /\ Joinable("write_caps")
    /\ wmainpc' = "join_t2"
    /\ UNCHANGED <<turn, mutex, wcond, ch, wpc, fp, file>>
    /\ UNCHANGED liVars
    /\ UNCHANGED notLW

\* pthread_join(t2, NULL)
WJoinT2 ==
    /\ wmainpc = "join_t2"
    /\ Joinable("write_smalls")
    /\ wmainpc' = "fclose"
    /\ UNCHANGED <<turn, mutex, wcond, ch, wpc, fp, file>>
    /\ UNCHANGED liVars
    /\ UNCHANGED notLW

\* fclose(fp)
Fclose ==
    /\ wmainpc = "fclose"
    /\ fp' = "closed"
    /\ wmainpc' = "mutex_destroy"
    /\ UNCHANGED <<turn, mutex, wcond, ch, wpc, file>>
    /\ UNCHANGED liVars
    /\ UNCHANGED notLW

\* pthread_mutex_destroy(&mutex)
WMutexDestroy ==
    /\ wmainpc = "mutex_destroy"
    /\ minit' = "destroyed"
    /\ wmainpc' = "cond_destroy"
    /\ UNCHANGED <<turn, mutex, wcond, ch, wpc, fp, file, cinit>>
    /\ UNCHANGED notLW

\* pthread_cond_destroy(&cond)
WCondDestroy ==
    /\ wmainpc = "cond_destroy"
    /\ cinit' = "destroyed"
    /\ wmainpc' = "printf"
    /\ UNCHANGED <<turn, mutex, wcond, ch, wpc, fp, file, minit>>
    /\ UNCHANGED notLW

\* printf("Written AaBbCc...Zz pattern to output.txt\n"); return 0;
WMainReturn ==
    /\ wmainpc = "printf"
    /\ wmainpc' = "exited"
    /\ UNCHANGED <<turn, mutex, wcond, ch, wpc, fp, file>>
    /\ UNCHANGED liVars
    /\ UNCHANGED notLW

WMainStep ==
    \/ FopenOk
    \/ FopenFail
    \/ WMutexInit
    \/ WCondInit
    \/ WCreateT1
    \/ WCreateT2
    \/ WJoinT1
    \/ WJoinT2
    \/ Fclose
    \/ WMutexDestroy
    \/ WCondDestroy
    \/ WMainReturn

LetterInit ==
    /\ limit = MAX
    /\ AllStart

LetterNext ==
    \/ WMainStep
    \/ \E t \in Writers : WriterStep(t)
    \/ \E t \in Writers : WSpuriousWake(t)

LetterSpec == LetterInit /\ [][LetterNext]_vars

\* Scheduling of the letter writer: main and each thread eventually take a
\* step that stays possible, and spurious wake-ups do not recur forever.
LetterFairness ==
    /\ WF_vars(WMainStep)
    /\ \A t \in Writers : WF_vars(WriterStep(t))
    /\ <>[][~ \E t \in Writers : WSpuriousWake(t)]_vars

LetterFairSpec == LetterSpec /\ LetterFairness

\* pthread_mutex_init(&mutex, NULL) fails; main does not look at the result
WMutexInitFail ==
    /\ wmainpc = "mutex_init"
    /\ minit' = "failed"
    /\ wmainpc' = "cond_init"
    /\ UNCHANGED <<turn, mutex, wcond, ch, wpc, fp, file, cinit>>
    /\ UNCHANGED notLW

\* pthread_cond_init(&cond, NULL) fails; main does not look at the result
WCondInitFail ==
    /\ wmainpc = "cond_init"
    /\ cinit' = "failed"
    /\ wmainpc' = "create_t1"
    /\ UNCHANGED <<turn, mutex, wcond, ch, wpc, fp, file, minit>>
    /\ UNCHANGED notLW

\* pthread_mutex_lock on a mutex whose initialisation failed is undefined:
\* besides working as usual (WLock) it may return without the mutex; the
\* thread does not look at the result
WLockInvalid(t) ==
    /\ wpc[t] = "lock"
    /\ minit = "failed"
    /\ wpc' = [wpc EXCEPT ![t] = "while"]
    /\ UNCHANGED <<turn, mutex, wcond, ch, wmainpc, fp, file>>
    /\ UNCHANGED liVars
    /\ UNCHANGED notLW

\* pthread_cond_wait on a condition or mutex whose initialisation failed is
\* undefined: besides working as usual (WCondWait) it may return at once
WCondWaitInvalid(t) ==
    /\ wpc[t] = "cond_wait"
    /\ (minit = "failed" \/ cinit = "failed")
    /\ wpc' = [wpc EXCEPT ![t] = "while"]
    /\ UNCHANGED <<turn, mutex, wcond, ch, wmainpc, fp, file>>
    /\ UNCHANGED liVars
    /\ UNCHANGED notLW

\* the program with the failures of pthread_mutex_init and pthread_cond_init
LetterFailNext ==
    \/ LetterNext
    \/ WMutexInitFail
    \/ WCondInitFail
    \/ \E t \in Writers : WLockInvalid(t)
    \/ \E t \in Writers : WCondWaitInvalid(t)

LetterFailSpec == LetterInit /\ [][LetterFailNext]_vars


\* ------------------------------------------------------------------------
\* 10_Print_Odd_even.c
\* ------------------------------------------------------------------------

\* pthread_mutex_lock(&lock)
PLock(t) ==
    /\ pc_p[t] = "lock"
    /\ lock_p = NoThread
    /\ lock_p' = t
    /\ pc_p' = [pc_p EXCEPT ![t] = "if_max"]
    /\ UNCHANGED <<counter_p, mainpc_p, out_p>>
    /\ UNCHANGED notPN

\* if (counter > MAX)
PIfMax(t) ==
    /\ pc_p[t] = "if_max"
    /\ pc_p' = [pc_p EXCEPT ![t] = IF counter_p > limit THEN "break"
                                   ELSE "if_parity"]
    /\ UNCHANGED <<counter_p, lock_p, mainpc_p, out_p>>
    /\ UNCHANGED notPN

\* pthread_mutex_unlock(&lock); break;  ... return NULL;
PUnlockBreak(t) ==
    /\ pc_p[t] = "break"
    /\ lock_p' = BreakUnlock(t)
    /\ pc_p' = [pc_p EXCEPT ![t] = "returned"]
    /\ UNCHANGED <<counter_p, mainpc_p, out_p>>
    /\ UNCHANGED notPN

\* if ((counter % 2 == 1 && is_odd) || (counter % 2 == 0 && !is_odd))
PIfParity(t) ==
    /\ pc_p[t] = "if_parity"
    /\ pc_p' = [pc_p EXCEPT ![t] = IF ParityMatch(t) THEN "printf"
                                   ELSE "unlock"]
    /\ UNCHANGED <<counter_p, lock_p, mainpc_p, out_p>>
    /\ UNCHANGED notPN

\* printf("%s Thread: %d\n", is_odd ? "Odd" : "Even", counter)
PPrintf(t) ==
    /\ pc_p[t] = "printf"
    /\ out_p' = Append(out_p, <<IsOdd(t), counter_p>>)
    /\ pc_p' = [pc_p EXCEPT ![t] = "incr"]
    /\ UNCHANGED <<counter_p, lock_p, mainpc_p>>
    /\ UNCHANGED notPN

\* counter++
PIncr(t) ==
    /\ pc_p[t] = "incr"
    /\ counter_p' = counter_p + 1
    /\ pc_p' = [pc_p EXCEPT ![t] = "unlock"]
    /\ UNCHANGED <<lock_p, mainpc_p, out_p>>
    /\ UNCHANGED notPN

\* pthread_mutex_unlock(&lock), then back to the top of while (1)
PUnlock(t) ==
    /\ pc_p[t] = "unlock"
    /\ lock_p' = NoThread
    /\ pc_p' = [pc_p EXCEPT ![t] = "lock"]
    /\ UNCHANGED <<counter_p, mainpc_p, out_p>>
    /\ UNCHANGED notPN

\* what a thread does once it has the mutex
PollerStep(t) ==
    \/ PIfMax(t)
    \/ PUnlockBreak(t)
    \/ PIfParity(t)
    \/ PPrintf(t)
    \/ PIncr(t)
    \/ PUnlock(t)

\* pthread_create(&t1, NULL, print_numbers, &odd)
PCreateT1 ==
    /\ mainpc_p = "create_t1"
    /\ pc_p' = [pc_p EXCEPT !["t1"] = "lock"]
    /\ mainpc_p' = "create_t2"
    /\ UNCHANGED <<counter_p, lock_p, out_p>>
    /\ UNCHANGED notPN

\* pthread_create(&t2, NULL, print_numbers, &even)
PCreateT2 ==
    /\ mainpc_p = "create_t2"
    /\ pc_p' = [pc_p EXCEPT !["t2"] = "lock"]
    /\ mainpc_p' = "join_t1"
    /\ UNCHANGED <<counter_p, lock_p, out_p>>
    /\ UNCHANGED notPN

\* pthread_join(t1, NULL)
PJoinT1 ==
    /\ mainpc_p = "join_t1"
    /\ pc_p["t1"] = "returned"
    /\ mainpc_p' = "join_t2"
    /\ UNCHANGED <<counter_p, lock_p, pc_p, out_p>>
    /\ UNCHANGED notPN

\* pthread_join(t2, NULL); return 0;
PJoinT2 ==
    /\ mainpc_p = "join_t2"
    /\ pc_p["t2"] = "returned"
    /\ mainpc_p' = "exited"
    /\ UNCHANGED <<counter_p, lock_p, pc_p, out_p>>
    /\ UNCHANGED notPN

PMainStep == PCreateT1 \/ PCreateT2 \/ PJoinT1 \/ PJoinT2

PollNext ==
    \/ PMainStep
    \/ \E t \in Pollers : PLock(t)
    \/ \E t \in Pollers : PollerStep(t)

PollSpec == Init /\ [][PollNext]_vars

\* Scheduling: main and a thread that can take a step eventually take one;
\* a thread that finds the mutex free again and again eventually gets it.
PollFairness ==
    /\ WF_vars(PMainStep)
    /\ \A t \in Pollers : WF_vars(PollerStep(t))
    /\ \A t \in Pollers : SF_vars(PLock(t))

PollFairSpec == PollSpec /\ PollFairness

\* the same with a mutex that is only weakly fair
PollWeakSpec ==
    /\ PollSpec
    /\ WF_vars(PMainStep)
    /\ \A t \in Pollers : WF_vars(PollerStep(t) \/ PLock(t))

\* ------------------------------------------------------------------------
\* 11_ABCDabcdWiteFile.c
\* ------------------------------------------------------------------------

\* pthread_mutex_lock(&lock), then the for loop's initialiser
MLock(t) ==
    /\ pc_m[t] = "lock"
    /\ MutexFree
    /\ lock_m' = t
    /\ first_m' = IF first_m = NoThread THEN t ELSE first_m
    /\ pc_m' = [pc_m EXCEPT ![t] = "for"]
    /\ UNCHANGED <<ch_m, mainpc_m, fp_m, file_m>>
    /\ UNCHANGED notMO

\* ch <= 'Z'  /  ch <= 'z'
MFor(t) ==
    /\ pc_m[t] = "for"
    /\ pc_m' = [pc_m EXCEPT ![t] = IF ch_m[t] <= LastCh(t) THEN "fputc"
                                   ELSE "unlock"]
    /\ UNCHANGED <<lock_m, ch_m, mainpc_m, fp_m, file_m, first_m>>
    /\ UNCHANGED notMO

\* fputc(ch, fp); fflush(fp); usleep(1000); ch++
MFputc(t) ==
    /\ pc_m[t] = "fputc"
    /\ file_m' = Append(file_m, ch_m[t])
    /\ ch_m' = [ch_m EXCEPT ![t] = ch_m[t] + 1]
    /\ pc_m' = [pc_m EXCEPT ![t] = "for"]
    /\ UNCHANGED <<lock_m, mainpc_m, fp_m, first_m>>
    /\ UNCHANGED notMO

\* pthread_mutex_unlock(&lock); return NULL;
MUnlock(t) ==
    /\ pc_m[t] = "unlock"
    /\ lock_m' = IF lock_m = t THEN NoThread ELSE lock_m
    /\ pc_m' = [pc_m EXCEPT ![t] = "returned"]
    /\ UNCHANGED <<ch_m, mainpc_m, fp_m, file_m, first_m>>
    /\ UNCHANGED notMO

MWriterStep(t) == MLock(t) \/ MFor(t) \/ MFputc(t) \/ MUnlock(t)

\* fp = fopen("output.txt", "w") succeeds
MFopenOk ==
    /\ mainpc_m = "fopen"
    /\ fp_m' = "open"
    /\ mainpc_m' = "mutex_init"
    /\ UNCHANGED <<lock_m, ch_m, pc_m, file_m, first_m>>
    /\ UNCHANGED notMO

\* fopen fails: perror and return 1
MFopenFail ==
    /\ mainpc_m = "fopen"
    /\ fp_m' = "null"
    /\ mainpc_m' = "exit1"
    /\ UNCHANGED <<lock_m, ch_m, pc_m, file_m, first_m>>
    /\ UNCHANGED notMO

\* pthread_mutex_init(&lock, NULL) returns 0
MMutexInit ==
    /\ mainpc_m = "mutex_init"
    /\ lock_m' = NoThread
    /\ mainpc_m' = "create_t1"
    /\ UNCHANGED <<ch_m, pc_m, fp_m, file_m, first_m>>
    /\ UNCHANGED notMO

\* pthread_mutex_init fails: perror and return 1
MMutexInitFail ==
    /\ mainpc_m = "mutex_init"
    /\ mainpc_m' = "exit1"
    /\ UNCHANGED <<lock_m, ch_m, pc_m, fp_m, file_m, first_m>>
    /\ UNCHANGED notMO

\* pthread_create(&t1, NULL, write_caps, NULL)
MCreateT1 ==
    /\ mainpc_m = "create_t1"
    /\ pc_m' = [pc_m EXCEPT !["write_caps"] = "lock"]
    /\ mainpc_m' = "create_t2"
    /\ UNCHANGED <<lock_m, ch_m, fp_m, file_m, first_m>>
    /\ UNCHANGED notMO

\* pthread_create(&t2, NULL, write_smalls, NULL)
MCreateT2 ==
    /\ mainpc_m = "create_t2"
    /\ pc_m' = [pc_m EXCEPT !["write_smalls"] = "lock"]
    /\ mainpc_m' = "join_t1"
    /\ UNCHANGED <<lock_m, ch_m, fp_m, file_m, first_m>>
    /\ UNCHANGED notMO

\* pthread_join(t1, NULL)
MJoinT1 ==
    /\ mainpc_m = "join_t1"
    /\ pc_m["write_caps"] = "returned"
    /\ mainpc_m' = "join_t2"
    /\ UNCHANGED <<lock_m, ch_m, pc_m, fp_m, file_m, first_m>>
    /\ UNCHANGED notMO

\* pthread_join(t2, NULL)
MJoinT2 ==
    /\ mainpc_m = "join_t2"
    /\ pc_m["write_smalls"] = "returned"
    /\ mainpc_m' = "fclose"
    /\ UNCHANGED <<lock_m, ch_m, pc_m, fp_m, file_m, first_m>>
    /\ UNCHANGED notMO

\* fclose(fp); pthread_mutex_destroy(&lock); printf(...); return 0;
MCleanup ==
    /\ mainpc_m = "fclose"
    /\ fp_m' = "closed"
    /\ mainpc_m' = "exited"
    /\ UNCHANGED <<lock_m, ch_m, pc_m, file_m, first_m>>
    /\ UNCHANGED notMO

MMainStep ==
    \/ MFopenOk
    \/ MFopenFail
    \/ MMutexInit
    \/ MMutexInitFail
    \/ MCreateT1
    \/ MCreateT2
    \/ MJoinT1
    \/ MJoinT2
    \/ MCleanup

MutexOnlyNext ==
    \/ MMainStep
    \/ \E t \in Writers : MWriterStep(t)

MutexOnlySpec == LetterInit /\ [][MutexOnlyNext]_vars

\* ------------------------------------------------------------------------
\* sem_init.c, process1.c, process2.c
\* ------------------------------------------------------------------------

\* sem_init: semget(key, 1, IPC_CREAT | 0666); a new semaphore starts at 0
InitSemget ==
    /\ initpc = "semget"
    /\ semset' = TRUE
    /\ initpc' = "setval"
    /\ UNCHANGED <<semval, spc, sfile>>
    /\ UNCHANGED notSM

\* sem_init: semget fails, perror and return 1
InitSemgetFail ==
    /\ initpc = "semget"
    /\ initpc' = "exit1"
    /\ UNCHANGED <<semset, semval, spc, sfile>>
    /\ UNCHANGED notSM

\* sem_init: semctl(semid, 0, SETVAL, 1); printf; return 0
InitSetval ==
    /\ initpc = "setval"
    /\ semval' = 1
    /\ initpc' = "done"
    /\ UNCHANGED <<semset, spc, sfile>>
    /\ UNCHANGED notSM

\* sem_init: semctl fails, perror and return 1
InitSetvalFail ==
    /\ initpc = "setval"
    /\ initpc' = "exit1"
    /\ UNCHANGED <<semset, semval, spc, sfile>>
    /\ UNCHANGED notSM

SemInitStep == InitSemget \/ InitSemgetFail \/ InitSetval \/ InitSetvalFail

\* semget(key, 1, 0666): no IPC_CREAT, so it fails while the set is absent
PSemget(p) ==
    /\ spc[p] = "semget"
    /\ spc' = [spc EXCEPT ![p] = IF semset THEN "open" ELSE "exit1"]
    /\ UNCHANGED <<semset, semval, initpc, sfile>>
    /\ UNCHANGED notSM

\* fd = open("file.txt", O_WRONLY | O_CREAT | O_APPEND, 0644) succeeds
POpen(p) ==
    /\ spc[p] = "open"
    /\ spc' = [spc EXCEPT ![p] = "semop_p"]
    /\ UNCHANGED <<semset, semval, initpc, sfile>>
    /\ UNCHANGED notSM

\* open fails: perror and return 1
POpenFail(p) ==
    /\ spc[p] = "open"
    /\ spc' = [spc EXCEPT ![p] = "exit1"]
    /\ UNCHANGED <<semset, semval, initpc, sfile>>
    /\ UNCHANGED notSM

\* semop(semid, &lock, 1)
PSemopP(p) ==
    /\ spc[p] = "semop_p"
    /\ SemOpReady(semval, LockOp)
    /\ semval' = SemOpApply(semval, LockOp)
    /\ spc' = [spc EXCEPT ![p] = "write"]
    /\ UNCHANGED <<semset, initpc, sfile>>
    /\ UNCHANGED notSM

\* write(fd, "Process1: ...\n", 25)  /  write(fd, "Process2: ...\n", 30)
PWrite(p) ==
    /\ spc[p] = "write"
    /\ sfile' = Append(sfile, <<p, WriteLen(p)>>)
    /\ spc' = [spc EXCEPT ![p] = "semop_v"]
    /\ UNCHANGED <<semset, semval, initpc>>
    /\ UNCHANGED notSM

\* semop(semid, &unlock, 1)
PSemopV(p) ==
    /\ spc[p] = "semop_v"
    /\ SemOpReady(semval, UnlockOp)
    /\ semval' = SemOpApply(semval, UnlockOp)
    /\ spc' = [spc EXCEPT ![p] = "close"]
    /\ UNCHANGED <<semset, initpc, sfile>>
    /\ UNCHANGED notSM

\* close(fd); return 0;
PClose(p) ==
    /\ spc[p] = "close"
    /\ spc' = [spc EXCEPT ![p] = "returned"]
    /\ UNCHANGED <<semset, semval, initpc, sfile>>
    /\ UNCHANGED notSM

ProcStep(p) ==
    \/ PSemget(p)
    \/ POpen(p)
    \/ PSemopP(p)
    \/ PWrite(p)
    \/ PSemopV(p)
    \/ PClose(p)

SemNext ==
    \/ SemInitStep
    \/ \E p \in Procs : ProcStep(p)
    \/ \E p \in Procs : POpenFail(p)

SemSpec == LetterInit /\ [][SemNext]_vars

\* Scheduling: sem_init and every process eventually take a step that stays
\* possible (a failing open is an outcome of the step, not a duty).
SemFairness ==
    /\ WF_vars(SemInitStep)
    /\ \A p \in Procs : WF_vars(ProcStep(p))

SemFairSpec == SemSpec /\ SemFairness

\* ------------------------------------------------------------------------
\* 01_process.c
\* ------------------------------------------------------------------------

\* id = semget(5, 5, IPC_CREAT | 0644): creates the set (all values 0) or
\* finds the one the other instance created
ZSemget(p) ==
    /\ zpc[p] = "semget"
    /\ zset' = TRUE
    /\ zpc' = [zpc EXCEPT ![p] = "open"]
    /\ UNCHANGED <<zsem, zi, zlast, zruns>>
    /\ UNCHANGED notWZ

\* semget fails: perror and return 1
ZSemgetFail(p) ==
    /\ zpc[p] = "semget"
    /\ zpc' = [zpc EXCEPT ![p] = "exit1"]
    /\ UNCHANGED <<zset, zsem, zi, zlast, zruns>>
    /\ UNCHANGED notWZ

\* fd = open("file.txt", O_WRONLY | O_CREAT | O_APPEND, 0644) succeeds
ZOpen(p) ==
    /\ zpc[p] = "open"
    /\ zpc' = [zpc EXCEPT ![p] = "semop"]
    /\ UNCHANGED <<zset, zsem, zi, zlast, zruns>>
    /\ UNCHANGED notWZ

\* open fails: perror and return 1
ZOpenFail(p) ==
    /\ zpc[p] = "open"
    /\ zpc' = [zpc EXCEPT ![p] = "exit1"]
    /\ UNCHANGED <<zset, zsem, zi, zlast, zruns>>
    /\ UNCHANGED notWZ

\* semop(id, &v, 1) with v = {2, 0, 0}: wait until semaphore 2 is zero
ZSemop(p) ==
    /\ zpc[p] = "semop"
    /\ WaitZeroReady(zsem)
    /\ zpc' = [zpc EXCEPT ![p] = "setval1"]
    /\ UNCHANGED <<zset, zsem, zi, zlast, zruns>>
    /\ UNCHANGED notWZ

\* semctl(id, v.sem_num, SETVAL, 1), then the for loop's i = 0
ZSetval1(p) ==
    /\ zpc[p] = "setval1"
    /\ zsem' = 1
    /\ zi' = [zi EXCEPT ![p] = 0]
    /\ zpc' = [zpc EXCEPT ![p] = "for"]
    /\ UNCHANGED <<zset, zlast, zruns>>
    /\ UNCHANGED notWZ

\* ch[i] != '\0'
ZFor(p) ==
    /\ zpc[p] = "for"
    /\ zpc' = [zpc EXCEPT ![p] = IF zi[p] < ZLen THEN "write" ELSE "setval0"]
    /\ UNCHANGED <<zset, zsem, zi, zlast, zruns>>
    /\ UNCHANGED notWZ

\* write(fd, &ch[i], 1); i++
ZWrite(p) ==
    /\ zpc[p] = "write"
    /\ zlast' = p
    /\ zruns' = [zruns EXCEPT ![p] = IF zlast = p THEN zruns[p]
                                      ELSE zruns[p] + 1]
    /\ zi' = [zi EXCEPT ![p] = zi[p] + 1]
    /\ zpc' = [zpc EXCEPT ![p] = "for"]
    /\ UNCHANGED <<zset, zsem>>
    /\ UNCHANGED notWZ

\* semctl(id, 2, SETVAL, 0); return 0;
ZSetval0(p) ==
    /\ zpc[p] = "setval0"
    /\ zsem' = 0
    /\ zpc' = [zpc EXCEPT ![p] = "returned"]
    /\ UNCHANGED <<zset, zi, zlast, zruns>>
    /\ UNCHANGED notWZ

ZStep(p) ==
    \/ ZSemget(p)
    \/ ZSemgetFail(p)
    \/ ZOpen(p)
    \/ ZOpenFail(p)
    \/ ZSemop(p)
    \/ ZSetval1(p)
    \/ ZFor(p)
    \/ ZWrite(p)
    \/ ZSetval0(p)

WaitZeroNext == \E p \in ZProcs : ZStep(p)

WaitZeroSpec == LetterInit /\ [][WaitZeroNext]_vars

\* ------------------------------------------------------------------------
\* 02_Pipe2WayCommunication.c
\* ------------------------------------------------------------------------

\* pipe(p2c);
XPipe ==
    /\ xpc["parent"] = "pipe"
    /\ ends' = [ends EXCEPT !["parent"] = {"p2c_r", "p2c_w"}]
    /\ xpc' = [xpc EXCEPT !["parent"] = "pipe2"]
    /\ UNCHANGED <<p2c, c2p, got, calls, tty, sbuf, sout>>
    /\ UNCHANGED notPP

\* pipe(c2p);
XPipe2 ==
    /\ xpc["parent"] = "pipe2"
    /\ ends' = [ends EXCEPT !["parent"] = AllEnds]
    /\ xpc' = [xpc EXCEPT !["parent"] = "fork"]
    /\ UNCHANGED <<p2c, c2p, got, calls, tty, sbuf, sout>>
    /\ UNCHANGED notPP

\* pid = fork() succeeds: the child gets copies of the four descriptors and
\* takes the pid == 0 branch, the parent the else branch
XFork ==
    /\ xpc["parent"] = "fork"
    /\ ends' = [ends EXCEPT !["child"] = ends["parent"]]
    /\ xpc' = [q \in PipeProcs |-> "close1"]
    /\ UNCHANGED <<p2c, c2p, got, calls, tty, sbuf, sout>>
    /\ UNCHANGED notPP

\* fork() fails: pid is -1, main takes the else branch without a child
XForkFail ==
    /\ xpc["parent"] = "fork"
    /\ xpc' = [xpc EXCEPT !["parent"] = "close1", !["child"] = "none"]
    /\ UNCHANGED <<p2c, c2p, ends, got, calls, tty, sbuf, sout>>
    /\ UNCHANGED notPP

\* close(fd) at position from, continuing at position to
XClose(q, from, e, to) ==
    /\ xpc[q] = from
    /\ ends' = [ends EXCEPT ![q] = ends[q] \ {e}]
    /\ xpc' = [xpc EXCEPT ![q] = to]
    /\ UNCHANGED <<p2c, c2p, got, calls, tty, sbuf, sout>>
    /\ UNCHANGED notPP

\* printf("... received: %s\n", buf): the line goes to the stdio buffer, and
\* on to stdout at once when stdout is line buffered
XPrintf(q, to) ==
    /\ xpc[q] = "printf"
    /\ calls' = Append(calls, <<q, got[q]>>)
    /\ IF tty
          THEN /\ sout' = sout \o sbuf[q] \o <<q>>
               /\ sbuf' = [sbuf EXCEPT ![q] = <<>>]
          ELSE /\ sbuf' = [sbuf EXCEPT ![q] = Append(sbuf[q], q)]
               /\ sout' = sout
    /\ xpc' = [xpc EXCEPT ![q] = to]
    /\ UNCHANGED <<p2c, c2p, ends, got, tty>>
    /\ UNCHANGED notPP

\* return 0: exit first flushes what stdout still buffers
XReturn(q) ==
    /\ xpc[q] = "return"
    /\ sout' = sout \o sbuf[q]
    /\ sbuf' = [sbuf EXCEPT ![q] = <<>>]
    /\ xpc' = [xpc EXCEPT ![q] = "exit"]
    /\ UNCHANGED <<p2c, c2p, ends, got, calls, tty>>
    /\ UNCHANGED notPP

\* ... and the process ends, which closes the descriptors it still holds
XExit(q) ==
    /\ xpc[q] = "exit"
    /\ ends' = [ends EXCEPT ![q] = {}]
    /\ xpc' = [xpc EXCEPT ![q] = "exited"]
    /\ UNCHANGED <<p2c, c2p, got, calls, tty, sbuf, sout>>
    /\ UNCHANGED notPP

\* parent: write(p2c[1], "Hello Child", 12); without a reader the write
\* raises SIGPIPE, which ends the process with nothing flushed
ParentWrite ==
    /\ xpc["parent"] = "write"
    /\ IF Holders("p2c_r") # {}
          THEN /\ p2c' = Append(p2c, "Hello Child")
               /\ xpc' = [xpc EXCEPT !["parent"] = "read"]
               /\ ends' = ends
          ELSE /\ p2c' = p2c
               /\ xpc' = [xpc EXCEPT !["parent"] = "killed"]
               /\ ends' = [ends EXCEPT !["parent"] = {}]
    /\ UNCHANGED <<c2p, got, calls, tty, sbuf, sout>>
    /\ UNCHANGED notPP

\* parent: read(c2p[0], buf, sizeof(buf))
ParentRead ==
    /\ xpc["parent"] = "read"
    /\ ReadReady(c2p, Holders("c2p_w"))
    /\ got' = [got EXCEPT !["parent"] = ReadResult(c2p)]
    /\ c2p' = ReadRest(c2p)
    /\ xpc' = [xpc EXCEPT !["parent"] = "printf"]
    /\ UNCHANGED <<p2c, ends, calls, tty, sbuf, sout>>
    /\ UNCHANGED notPP

\* child: read(p2c[0], buf, sizeof(buf))
ChildRead ==
    /\ xpc["child"] = "read"
    /\ ReadReady(p2c, Holders("p2c_w"))
    /\ got' = [got EXCEPT !["child"] = ReadResult(p2c)]
    /\ p2c' = ReadRest(p2c)
    /\ xpc' = [xpc EXCEPT !["child"] = "printf"]
    /\ UNCHANGED <<c2p, ends, calls, tty, sbuf, sout>>
    /\ UNCHANGED notPP

\* child: write(c2p[1], "Ack from child", 15)
ChildWrite ==
    /\ xpc["child"] = "write"
    /\ IF Holders("c2p_r") # {}
          THEN /\ c2p' = Append(c2p, "Ack from child")
               /\ xpc' = [xpc EXCEPT !["child"] = "close3"]
               /\ ends' = ends
          ELSE /\ c2p' = c2p
               /\ xpc' = [xpc EXCEPT !["child"] = "killed"]
               /\ ends' = [ends EXCEPT !["child"] = {}]
    /\ UNCHANGED <<p2c, got, calls, tty, sbuf, sout>>
    /\ UNCHANGED notPP

\* the else branch of main
ParentStep ==
    \/ XClose("parent", "close1", "p2c_r", "close2")
    \/ XClose("parent", "close2", "c2p_w", "write")
    \/ ParentWrite
    \/ ParentRead
    \/ XPrintf("parent", "close3")
    \/ XClose("parent", "close3", "p2c_w", "close4")
    \/ XClose("parent", "close4", "c2p_r", "return")
    \/ XReturn("parent")
    \/ XExit("parent")

\* the pid == 0 branch of main
ChildStep ==
    \/ XClose("child", "close1", "p2c_w", "close2")
    \/ XClose("child", "close2", "c2p_r", "read")
    \/ ChildRead
    \/ XPrintf("child", "write")
    \/ ChildWrite
    \/ XClose("child", "close3", "p2c_r", "close4")
    \/ XClose("child", "close4", "c2p_w", "return")
    \/ XReturn("child")
    \/ XExit("child")

PipeNext ==
    \/ XPipe
    \/ XPipe2
    \/ XFork
    \/ XForkFail
    \/ ParentStep
    \/ ChildStep

\* the exchange with either kind of stdout, the other programs not started
PipeInit ==
    /\ limit = MAX
    /\ OddEvenStart
    /\ LetterStart
    /\ PollStart
    /\ MutexOnlyStart
    /\ SemStart
    /\ WaitZeroStart
    /\ PipeStart(BOOLEAN)
    /\ WriterReaderStart({FALSE})

PipeSpec == PipeInit /\ [][PipeNext]_vars

\* Scheduling: a process that can take a step eventually takes one.
PipeFairness ==
    /\ WF_vars(XPipe \/ XPipe2 \/ XFork \/ ParentStep)
    /\ WF_vars(ChildStep)

PipeFairSpec == PipeSpec /\ PipeFairness

\* ------------------------------------------------------------------------
\* My_Delete.c
\* ------------------------------------------------------------------------

\* reader_thread: sleep(1)
DSleep(t) ==
    /\ dpc[t] = "sleep"
    /\ dpc' = [dpc EXCEPT ![t] = "lock"]
    /\ UNCHANGED <<dlock, dmainpc, dopen, dexists, dfile, dnext, dread, dfailed>>
    /\ UNCHANGED notWR

\* pthread_mutex_lock(&lock)
DLock(t) ==
    /\ dpc[t] = "lock"
    /\ dlock = NoThread
    /\ dlock' = t
    /\ dpc' = [dpc EXCEPT ![t] = "fopen"]
    /\ UNCHANGED <<dmainpc, dopen, dexists, dfile, dnext, dread, dfailed>>
    /\ UNCHANGED notWR

\* fp = fopen(filename, "w") truncates or creates the file;
\* fp = fopen(filename, "r") opens it at its start
DFopen(t) ==
    /\ dpc[t] = "fopen"
    /\ CanOpen(t)
    /\ dopen' = dopen \cup {t}
    /\ IF t = "writer_thread"
          THEN /\ dexists' = TRUE
               /\ dfile' = <<>>
               /\ dnext' = dnext
               /\ dpc' = [dpc EXCEPT ![t] = "fprintf"]
          ELSE /\ dnext' = 1
               /\ dpc' = [dpc EXCEPT ![t] = "printf"]
               /\ UNCHANGED <<dexists, dfile>>
    /\ UNCHANGED <<dlock, dmainpc, dread, dfailed>>
    /\ UNCHANGED notWR

\* fopen returns NULL (for "r": the file does not exist; for either mode: no
\* permission, no descriptors left)
DFopenFail(t) ==
    /\ dpc[t] = "fopen"
    /\ dfailed' = dfailed \cup {t}
    /\ dpc' = [dpc EXCEPT ![t] = "fail_unlock"]
    /\ UNCHANGED <<dlock, dmainpc, dopen, dexists, dfile, dnext, dread>>
    /\ UNCHANGED notWR

\* perror(...); pthread_mutex_unlock(&lock); return NULL;
DFailUnlock(t) ==
    /\ dpc[t] = "fail_unlock"
    /\ dlock' = FailUnlock(t)
    /\ dpc' = [dpc EXCEPT ![t] = "returned"]
    /\ UNCHANGED <<dmainpc, dopen, dexists, dfile, dnext, dread, dfailed>>
    /\ UNCHANGED notWR

\* writer_thread: fprintf(fp, "Hello from writer thread!\n")
DFprintf(t) ==
    /\ dpc[t] = "fprintf"
    /\ dfile' = Append(dfile, HelloLine)
    /\ dpc' = [dpc EXCEPT ![t] = "fclose"]
    /\ UNCHANGED <<dlock, dmainpc, dopen, dexists, dnext, dread, dfailed>>
    /\ UNCHANGED notWR

\* reader_thread: printf("Reader: Reading from file:\n")
DPrintf(t) ==
    /\ dpc[t] = "printf"
    /\ dpc' = [dpc EXCEPT ![t] = "fgets"]
    /\ UNCHANGED <<dlock, dmainpc, dopen, dexists, dfile, dnext, dread, dfailed>>
    /\ UNCHANGED notWR

\* reader_thread: while (fgets(buffer, sizeof(buffer), fp)) printf(...)
DFgets(t) ==
    /\ dpc[t] = "fgets"
    /\ IF dnext <= Len(dfile)
          THEN /\ dread' = Append(dread, dfile[dnext])
               /\ dnext' = dnext + 1
               /\ dpc' = dpc
          ELSE /\ dpc' = [dpc EXCEPT ![t] = "fclose"]
               /\ UNCHANGED <<dread, dnext>>
    /\ UNCHANGED <<dlock, dmainpc, dopen, dexists, dfile, dfailed>>
    /\ UNCHANGED notWR

\* fclose(fp); (writer_thread: printf("Writer: Data written to file.\n"))
DFclose(t) ==
    /\ dpc[t] = "fclose"
    /\ dopen' = dopen \ {t}
    /\ dpc' = [dpc EXCEPT ![t] = "unlock"]
    /\ UNCHANGED <<dlock, dmainpc, dexists, dfile, dnext, dread, dfailed>>
    /\ UNCHANGED notWR

\* pthread_mutex_unlock(&lock); return NULL;
DUnlock(t) ==
    /\ dpc[t] = "unlock"
    /\ dlock' = NoThread
    /\ dpc' = [dpc EXCEPT ![t] = "returned"]
    /\ UNCHANGED <<dmainpc, dopen, dexists, dfile, dnext, dread, dfailed>>
    /\ UNCHANGED notWR

DThreadStep(t) ==
    \/ DSleep(t)
    \/ DLock(t)
    \/ DFopen(t)
    \/ DFailUnlock(t)
    \/ DFprintf(t)
    \/ DPrintf(t)
    \/ DFgets(t)
    \/ DFclose(t)
    \/ DUnlock(t)

\* pthread_mutex_init(&lock, NULL) returns 0
DMutexInit ==
    /\ dmainpc = "mutex_init"
    /\ dlock' = NoThread
    /\ dmainpc' = "create_t1"
    /\ UNCHANGED <<dpc, dopen, dexists, dfile, dnext, dread, dfailed>>
    /\ UNCHANGED notWR

\* pthread_mutex_init fails: perror and return 1
DMutexInitFail ==
    /\ dmainpc = "mutex_init"
    /\ dmainpc' = "exit1"
    /\ UNCHANGED <<dlock, dpc, dopen, dexists, dfile, dnext, dread, dfailed>>
    /\ UNCHANGED notWR

\* pthread_create(&tid1, NULL, writer_thread, NULL)
DCreateT1 ==
    /\ dmainpc = "create_t1"
    /\ dpc' = [dpc EXCEPT !["writer_thread"] = "lock"]
    /\ dmainpc' = "create_t2"
    /\ UNCHANGED <<dlock, dopen, dexists, dfile, dnext, dread, dfailed>>
    /\ UNCHANGED notWR

\* pthread_create(&tid2, NULL, reader_thread, NULL)
DCreateT2 ==
    /\ dmainpc = "create_t2"
    /\ dpc' = [dpc EXCEPT !["reader_thread"] = "sleep"]
    /\ dmainpc' = "join_t1"
    /\ UNCHANGED <<dlock, dopen, dexists, dfile, dnext, dread, dfailed>>
    /\ UNCHANGED notWR

\* pthread_join(tid1, NULL)
DJoinT1 ==
    /\ dmainpc = "join_t1"
    /\ dpc["writer_thread"] = "returned"
    /\ dmainpc' = "join_t2"
    /\ UNCHANGED <<dlock, dpc, dopen, dexists, dfile, dnext, dread, dfailed>>
    /\ UNCHANGED notWR

\* pthread_join(tid2, NULL)
DJoinT2 ==
    /\ dmainpc = "join_t2"
    /\ dpc["reader_thread"] = "returned"
    /\ dmainpc' = "mutex_destroy"
    /\ UNCHANGED <<dlock, dpc, dopen, dexists, dfile, dnext, dread, dfailed>>
    /\ UNCHANGED notWR

\* pthread_mutex_destroy(&lock); return 0;
DDestroy ==
    /\ dmainpc = "mutex_destroy"
    /\ dmainpc' = "exited"
    /\ UNCHANGED <<dlock, dpc, dopen, dexists, dfile, dnext, dread, dfailed>>
    /\ UNCHANGED notWR

DMainStep ==
    \/ DMutexInit
    \/ DMutexInitFail
    \/ DCreateT1
    \/ DCreateT2
    \/ DJoinT1
    \/ DJoinT2
    \/ DDestroy

WriterReaderNext ==
    \/ DMainStep
    \/ \E t \in DThreads : DThreadStep(t)
    \/ \E t \in DThreads : DFopenFail(t)

\* the demo with or without an old shared.txt, the other programs not started
WriterReaderInit ==
    /\ limit = MAX
    /\ OddEvenStart
    /\ LetterStart
    /\ PollStart
    /\ MutexOnlyStart
    /\ SemStart
    /\ WaitZeroStart
    /\ PipeStart({TRUE})
    /\ WriterReaderStart(BOOLEAN)

WriterReaderSpec == WriterReaderInit /\ [][WriterReaderNext]_vars

\* Scheduling: main and each thread eventually take a step that stays
\* possible; a failing fopen is an outcome, not a duty, but a thread whose
\* fopen cannot succeed does get the failure.
WriterReaderFairness ==
    /\ WF_vars(DMainStep)
    /\ \A t \in DThreads : WF_vars(DThreadStep(t) \/ DFopenFail(t))

WriterReaderFairSpec == WriterReaderSpec /\ WriterReaderFairness

\* ------------------------------------------------------------------------
\* Properties of 09_Print_Odd_even.c
\* ------------------------------------------------------------------------
AllReturned == \A t \in Threads : pc[t] = "returned"

InStep == \E t \in Threads : pc[t] \in StepPcs

\* round-robin over the roles, step indices 1, 2, 3, ..., n entries
ExpectedOut(n) == [i \in 1 .. n |-> <<(i - 1) % N, i>>]

\* C1: in every interleaving the printed lines are role 0, role 1, role 0, ...
\* with values 1, 2, 3, ..., never more than limit of them, and exactly limit
\* of them once both threads have returned (Odd 1, Even 2, ... up to MAX).
C1_RoundRobin ==
    /\ Len(out) <= limit
    /\ out = ExpectedOut(Len(out))
    /\ AllReturned => Len(out) = limit

C1_Witness == mainpc = "exited" /\ limit = MAX /\ Len(out) = MAX

\* C2: at most one thread is inside its step (from the print to the unlock),
\* and the thread inside its step owns the mutex.
C2_MutualExclusion ==
    /\ Cardinality({t \in Threads : pc[t] \in StepPcs}) <= 1
    /\ \A t \in Threads : pc[t] \in StepPcs => lock = t

C2_Witness ==
    \E t, u \in Threads :
        /\ t # u
        /\ pc[t] \in StepPcs
        /\ pc[u] \in {"lock", "woken"}

\* C3: under weak fairness of main and of each thread, both threads return,
\* main's joins complete and nobody is left blocked on the condition
\* variable, for every limit (0 and odd limits included).
C3_Termination == <>[](AllReturned /\ mainpc = "exited" /\ cond = {})

C3_Witness ==
    /\ mainpc = "exited"
    /\ limit % N # 0
    /\ Len(out) = limit
    /\ AllReturned

\* C4: counter never exceeds limit + 1; it changes only by +1, and only by
\* the thread that has just printed the old value; once both threads have
\* returned it is limit + 1 and every value 1..limit was printed exactly once.
C4_CounterSteps ==
    /\ [](counter <= limit + 1)
    /\ [][counter' # counter =>
            /\ counter' = counter + 1
            /\ \E t \in Threads :
                  /\ pc[t] = "incr"
                  /\ pc'[t] = "turn"
                  /\ out # <<>>
                  /\ out[Len(out)] = <<Role(t), counter>>]_vars
    /\ [](AllReturned =>
            /\ counter = limit + 1
            /\ \A v \in 1 .. limit :
                  Cardinality({i \in DOMAIN out : out[i][2] = v}) = 1
            /\ \A i \in DOMAIN out : out[i][2] \in 1 .. limit)

C4_Witness == AllReturned /\ limit >= 3 /\ counter = limit + 1

\* C5: once counter > limit, counter and the output never change again and
\* no thread reaches its printf; once the step that made it so is complete
\* (its thread has unlocked), is_odd_turn never changes again and no step is
\* under way; a thread that tests the state goes on to unlock and leave
\* instead of waiting or acting.
C5_TerminalAbsorbing ==
    [][counter > limit =>
          /\ counter' = counter
          /\ out' = out
          /\ \A t \in Threads :
                /\ pc'[t] # "printf"
                /\ pc[t] = "while" => pc'[t] \in {"while", "if"}
                /\ pc[t] = "if" => pc'[t] \in {"if", "break"}
          /\ ~InStep => (is_odd_turn' = is_odd_turn /\ ~InStep')]_vars

C5_Witness ==
    /\ limit >= 1
    /\ counter > limit
    /\ \E t, u \in Threads :
          /\ pc[t] = "break"
          /\ pc[u] = "returned"

\* C6: with spurious wake-ups possible at any moment, a thread prints and
\* increments only while the turn is its own, and the output order stays
\* round-robin.
C6_SpuriousWakeSafe ==
    /\ \A t \in Threads : pc[t] \in {"printf", "incr"} => MyTurn(t)
    /\ \A i \in DOMAIN out : out[i][1] = (i - 1) % N

\* a thread woke spuriously, re-acquired the mutex, tested again and is
\* about to wait again
C6_Witness ==
    \E t \in Threads :
        /\ lastWake[t] = "spurious"
        /\ pc[t] = "cond_wait"
        /\ out # <<>>

\* C7 as stated: the notification on the transition to the terminal state is
\* a notify-all.
C7_NotifyAll == notified.at > limit => notified.kind = "broadcast"

\* C7 as amended: the step that takes counter past limit issues exactly one
\* pthread_cond_signal (notify-one); it leaves no thread blocked on the
\* condition, and none blocks afterwards.
C7_TerminalNotify ==
    /\ termNotifies <= 1
    /\ notified.at > limit =>
          /\ notified.kind = "signal"
          /\ notified.at = limit + 1
          /\ notified.left = {}
          /\ cond = {}
    /\ (/\ counter > limit
        /\ limit >= 1
        /\ \A t \in Threads : pc[t] \notin {"turn", "signal"})
          => termNotifies = 1

C7_Witness ==
    /\ limit >= 1
    /\ notified.at = limit + 1
    /\ notified.woke # {}

\* C8: no two consecutive printed lines come from the same role: the line
\* after one of role r comes from role (r + 1) mod N.
C8_NoRepeat ==
    \A i \in 1 .. Len(out) - 1 :
        /\ out[i + 1][1] # out[i][1]
        /\ out[i + 1][1] = (out[i][1] + 1) % N

\* the thread that printed last holds the mutex again before the other ran
C8_Witness ==
    \E t \in Threads :
        /\ pc[t] = "while"
        /\ Len(out) >= 2
        /\ out[Len(out)][1] = Role(t)

\* C9: two complete runs with the same limit print the same sequence,
\* whatever the two schedules were.
C9_Deterministic ==
    (runs = 2 /\ mainpc = "exited") => out = firstOut

\* both runs are complete, and their schedules differed from the first
\* pthread_mutex_lock on
C9_Witness ==
    /\ runs = 2
    /\ mainpc = "exited"
    /\ limit >= 3
    /\ Len(firstOut) = limit
    /\ sched # firstSched

\* ------------------------------------------------------------------------
\* Properties of 12_ABCDabcdWiteFileSync.c
\* ------------------------------------------------------------------------
IsCap(c) == c \in ChA .. ChZ

IsSmall(c) == c \in Cha .. Chz

Caps == Cardinality({i \in DOMAIN file : IsCap(file[i])})

Smalls == Cardinality({i \in DOMAIN file : IsSmall(file[i])})

\* the i-th character of A a B b C c ...
Pattern(i) == IF i % 2 = 1 THEN ChA + (i - 1) \div 2 ELSE Cha + (i - 2) \div 2

\* C10: in every interleaving the file holds a prefix of A a B b ... Z z, so
\* each capital is directly followed by its lowercase letter; capitals
\* written minus lowercase letters written is 0 or 1 at every moment; and
\* once both threads have returned the file is exactly A a B b ... Z z.
C10_LetterPattern ==
    /\ \A i \in DOMAIN file : file[i] = Pattern(i)
    /\ Caps - Smalls \in {0, 1}
    /\ (\A t \in Writers : wpc[t] = "returned") =>
          /\ Len(file) = 2 * (ChZ - ChA + 1)
          /\ file[Len(file)] = Chz

C10_Witness ==
    /\ wmainpc = "exited"
    /\ Len(file) = 52
    /\ file[1] = ChA
    /\ file[2] = Cha
    /\ file[51] = ChZ
    /\ file[52] = Chz

\* C11 as stated: when pthread_mutex_init or pthread_cond_init has failed,
\* no thread is ever created and nothing is written.
C11_AbortOnInitFailure ==
    (minit = "failed" \/ cinit = "failed") =>
        /\ \A t \in Writers : wpc[t] = "unborn"
        /\ file = <<>>

\* the positions at which a writer thread uses the mutex, the condition
\* variable or the file
WUsing == {"lock", "while", "cond_wait", "blocked", "woken", "fputc",
           "turn", "signal", "unlock"}

\* C12: main of the letter writer closes the file, destroys the mutex and
\* the condition variable, prints its message and returns only when both
\* threads have returned; a thread that still locks, waits or writes finds
\* the file open and neither object destroyed.
C12_JoinBarrier ==
    /\ (\/ wmainpc \in {"fclose", "mutex_destroy", "cond_destroy",
                        "printf", "exited"}
        \/ fp = "closed"
        \/ minit = "destroyed"
        \/ cinit = "destroyed")
          => \A t \in Writers : wpc[t] = "returned"
    /\ \A t \in Writers :
          wpc[t] \in WUsing =>
              (fp = "open" /\ minit # "destroyed" /\ cinit # "destroyed")

C12_Witness ==
    /\ wmainpc = "exited"
    /\ fp = "closed"
    /\ minit = "destroyed"
    /\ cinit = "destroyed"
    /\ Len(file) = 52

\* C12, the same barrier in 09_Print_Odd_even.c (checked under Spec): main
\* prints its message and returns only when both threads have returned.
C12_OddEvenBarrier == mainpc \in {"finished", "exited"} => AllReturned

\* the positions whose statement reads or writes counter or is_odd_turn
Accessing == {"while", "if", "printf", "incr", "turn"}

\* C13: a thread suspended in pthread_cond_wait does not own the mutex, and
\* a thread about to read or write counter or is_odd_turn owns it.
C13_LockDiscipline ==
    /\ \A t \in Threads : pc[t] \in {"blocked", "woken"} => lock # t
    /\ \A t \in Threads : pc[t] \in Accessing => lock = t

\* one thread is suspended while the other, owning the mutex, is about to
\* write counter
C13_Witness ==
    \E t, u \in Threads :
        /\ pc[t] = "blocked"
        /\ pc[u] = "incr"
        /\ lock = u

\* C13, the same discipline in 12_ABCDabcdWiteFileSync.c (checked under
\* LetterSpec, where both initialisations succeed).
C13_LetterLockDiscipline ==
    /\ \A t \in Writers : wpc[t] \in {"blocked", "woken"} => mutex # t
    /\ \A t \in Writers : wpc[t] \in {"while", "turn"} => mutex = t

\* the turn flag agrees with the parity of counter
Agree == is_odd_turn = (counter % 2 = 1)

\* C14: whenever the mutex is free the flag agrees with the parity of
\* counter; print_odd has printed odd values only and print_even even values
\* only; the one state in which counter is incremented and the flag not yet
\* set is that of the mutex owner between the two assignments, and a thread
\* that has just acquired the mutex never sees it.
C14_TurnMatchesParity ==
    /\ lock = NoThread => Agree
    /\ \A i \in DOMAIN out : (out[i][1] = 0) = (out[i][2] % 2 = 1)
    /\ ~Agree => \E t \in Threads : pc[t] = "turn" /\ lock = t
    /\ \A t \in Threads :
          pc[t] \in {"while", "cond_wait", "if", "break", "printf"} => Agree

\* the flag lags behind counter while the other thread is after the mutex
C14_Witness ==
    /\ ~Agree
    /\ \E u \in Threads : pc[u] \in {"lock", "woken"}
    /\ Len(out) >= 2

\* ------------------------------------------------------------------------
\* Properties of 10_Print_Odd_even.c
\* ------------------------------------------------------------------------
PAllReturned == \A t \in Pollers : pc_p[t] = "returned"

\* C15: with no fairness assumed, the values printed are 1, 2, 3, ... in
\* order, none skipped or repeated, odd values by the thread started with
\* is_odd = 1 and even values by the one started with is_odd = 0; counter
\* never exceeds MAX + 1 and is one ahead of the lines printed except between
\* a printf and its counter++.
C15_PollingOrder ==
    /\ \A i \in DOMAIN out_p : out_p[i] = <<i % 2, i>>
    /\ counter_p <= limit + 1
    /\ Len(out_p) <= limit
    /\ IF \E t \in Pollers : pc_p[t] = "incr"
          THEN counter_p = Len(out_p)
          ELSE counter_p = Len(out_p) + 1

C15_Witness ==
    /\ mainpc_p = "exited"
    /\ limit = MAX
    /\ Len(out_p) = MAX

\* C16: with fair lock acquisition both threads return with counter = MAX + 1
\* and main's joins complete; a thread whose parity does not match goes from
\* its parity test straight to the unlock and changes neither counter nor the
\* output.
C16_PollingTermination ==
    /\ <>[](PAllReturned /\ counter_p = limit + 1 /\ mainpc_p = "exited")
    /\ [][\A t \in Pollers :
            (/\ pc_p[t] = "if_parity"
             /\ pc_p'[t] # "if_parity"
             /\ (counter_p % 2 = 1) # (IsOdd(t) = 1))
                => (/\ pc_p'[t] = "unlock"
                    /\ counter_p' = counter_p
                    /\ out_p' = out_p)]_vars

C16_Witness ==
    /\ mainpc_p = "exited"
    /\ limit >= 3
    /\ counter_p = limit + 1
    /\ PAllReturned

\* C16 without the proviso: termination under a weakly fair mutex.
C16_WeakTermination == <>[](PAllReturned /\ mainpc_p = "exited")

\* ------------------------------------------------------------------------
\* Termination of 12_ABCDabcdWiteFileSync.c
\* ------------------------------------------------------------------------
WAllReturned == \A t \in Writers : wpc[t] = "returned"

\* C17: under weak fairness both writers of the synchronized letter writer
\* return (unless fopen failed and no thread was started), write_caps having
\* written 'Z' as its last letter and write_smalls 'z', nobody stays blocked
\* in pthread_cond_wait, the joins complete and the final turn is 0.
C17_LetterTermination ==
    /\ <>[](\/ wmainpc = "exit1"
            \/ (/\ WAllReturned
                /\ wcond = {}
                /\ turn = 0
                /\ wmainpc = "exited"))
    /\ [](wpc["write_caps"] = "returned" =>
            /\ Caps = 26
            /\ \E i \in DOMAIN file :
                  /\ file[i] = ChZ
                  /\ \A j \in DOMAIN file : j > i => ~IsCap(file[j]))
    /\ [](wpc["write_smalls"] = "returned" =>
            /\ Smalls = 26
            /\ file[Len(file)] = Chz)

C17_Witness ==
    /\ WAllReturned
    /\ wcond = {}
    /\ turn = 0
    /\ file[Len(file)] = Chz
    /\ wmainpc = "join_t1"

\* ------------------------------------------------------------------------
\* Properties of 11_ABCDabcdWiteFile.c
\* ------------------------------------------------------------------------
\* A..Z and a..z
CapsRun == [i \in 1 .. 26 |-> ChA + i - 1]

SmallsRun == [i \in 1 .. 26 |-> Cha + i - 1]

IsPrefix(s, full) == Len(s) <= Len(full) /\ s = SubSeq(full, 1, Len(s))

\* C18: each thread holds the mutex for its whole loop, so the file is at
\* every moment a prefix of A..Za..z when write_caps locked first and of
\* a..zA..Z when write_smalls locked first; no capital is ever written between
\* two lowercase letters nor a lowercase letter between two capitals; after
\* both joins the file is the whole of the one or the other.
C18_TwoBlocks ==
    /\ first_m = NoThread => file_m = <<>>
    /\ first_m = "write_caps" => IsPrefix(file_m, CapsRun \o SmallsRun)
    /\ first_m = "write_smalls" => IsPrefix(file_m, SmallsRun \o CapsRun)
    /\ \A i, j \in DOMAIN file_m :
          (i < j /\ IsCap(file_m[i]) = IsCap(file_m[j])) =>
              \A k \in i .. j : IsCap(file_m[k]) = IsCap(file_m[i])
    /\ \A t \in Writers : pc_m[t] \in {"for", "fputc", "unlock"} => lock_m = t
    /\ mainpc_m \in {"fclose", "exited"} =>
          file_m = IF first_m = "write_caps" THEN CapsRun \o SmallsRun
                   ELSE SmallsRun \o CapsRun

C18_Witness ==
    /\ mainpc_m = "exited"
    /\ first_m = "write_smalls"
    /\ file_m = SmallsRun \o CapsRun

\* ------------------------------------------------------------------------
\* Properties of sem_init.c, process1.c, process2.c
\* ------------------------------------------------------------------------
\* the processes between their P and their V
InCritical == {p \in Procs : spc[p] \in {"write", "semop_v"}}

HasWritten(p) == \E i \in DOMAIN sfile : sfile[i][1] = p

PFinished(p) == spc[p] \in {"returned", "exit1"}

\* C19: at most one process is between its P and its V, the semaphore value
\* is 0 or 1 (1 exactly when nobody is between P and V, once sem_init has set
\* it), every process that reaches its P after a successful sem_init
\* eventually writes its line, exactly once, and when sem_init and all
\* processes have finished the value is 1 again.
C19_SemaphoreMutex ==
    /\ [](Cardinality(InCritical) <= 1)
    /\ [](semval \in {0, 1})
    /\ [](initpc = "done" => semval = 1 - Cardinality(InCritical))
    /\ [](\A i, j \in DOMAIN sfile : i # j => sfile[i][1] # sfile[j][1])
    /\ []((initpc = "done" /\ \A p \in Procs : PFinished(p)) => semval = 1)
    /\ \A p \in Procs :
          (initpc = "done" /\ spc[p] = "semop_p") ~> HasWritten(p)

C19_Witness ==
    /\ initpc = "done"
    /\ \A p \in Procs : spc[p] = "returned" /\ HasWritten(p)
    /\ semval = 1
    /\ sfile[1][1] = NProcs

\* ------------------------------------------------------------------------
\* Properties of 01_process.c
\* ------------------------------------------------------------------------
\* the instances between semctl(SETVAL, 1) and semctl(SETVAL, 0)
InWriteLoop == {p \in ZProcs : zpc[p] \in {"for", "write", "setval0"}}

\* the characters of each instance form one contiguous run of the file
Contiguous == \A p \in ZProcs : zruns[p] <= 1

\* C20: at most one of the two instances is in the write loop between
\* semctl(SETVAL, 1) and semctl(SETVAL, 0), and each instance's characters
\* are one contiguous run of file.txt.
C20_ExclusiveWriteLoop ==
    /\ Cardinality(InWriteLoop) <= 1
    /\ Contiguous

\* a state of the interleaving: both instances have written, and a character
\* of one lies between two characters of the other
C20_Interleaved ==
    /\ Cardinality(InWriteLoop) = 2
    /\ ~Contiguous

\* ------------------------------------------------------------------------
\* Properties of 02_Pipe2WayCommunication.c
\* ------------------------------------------------------------------------
Forked == xpc["child"] \notin {"unborn", "none"}

\* the process q has made its printf call
Printed(q) == \E i \in DOMAIN calls : calls[i][1] = q

\* the position of q's printf call among the calls (0: not made)
CallAt(q) == IF Printed(q) THEN CHOOSE i \in DOMAIN calls : calls[i][1] = q
             ELSE 0

\* C21: after a successful fork the child's read returns "Hello Child" and
\* only after the parent has written it, the parent's read returns
\* "Ack from child" and only after the child has written it, so the child's
\* printf of "Child received" is called before the parent's printf of
\* "Parent received", and when stdout is line buffered the two lines reach it
\* in that order; no write finds its pipe without a reader; under weak
\* fairness neither process stays blocked and both exit.
C21_PipeExchange ==
    /\ [](Forked =>
            /\ got["child"] \in {"none", "Hello Child"}
            /\ got["parent"] \in {"none", "Ack from child"}
            /\ got["child"] # "none" =>
                  xpc["parent"] \notin {"close1", "close2", "write"}
            /\ got["parent"] # "none" =>
                  xpc["child"] \notin {"close1", "close2", "read", "printf", "write"}
            /\ Printed("parent") =>
                  (Printed("child") /\ CallAt("child") < CallAt("parent"))
            /\ tty => sout \in {<<>>, <<"child">>, <<"child", "parent">>}
            /\ \A q \in PipeProcs : xpc[q] # "killed")
    /\ <>[](\/ xpc["child"] = "none"
            \/ \A q \in PipeProcs : xpc[q] = "exited")

C21_Witness ==
    /\ \A q \in PipeProcs : xpc[q] = "exited"
    /\ calls = << <<"child", "Hello Child">>, <<"parent", "Ack from child">> >>
    /\ tty
    /\ sout = <<"child", "parent">>

\* C21 as stated, for the lines that reach stdout whatever its buffering:
\* "Child received" never comes after "Parent received".
C21_OutputOrder ==
    Forked => sout \in {<<>>, <<"child">>, <<"child", "parent">>}

\* the run that refutes it: stdout fully buffered, the parent exits first
C21_ParentLineFirst ==
    /\ ~tty
    /\ Forked
    /\ sout = <<"parent", "child">>
    /\ calls = << <<"child", "Hello Child">>, <<"parent", "Ack from child">> >>

\* ------------------------------------------------------------------------
\* Properties of My_Delete.c
\* ------------------------------------------------------------------------
\* C22: the writer and the reader never have shared.txt open at the same
\* time (a thread that has it open owns the mutex); a thread that has
\* returned, by the normal path or by the fopen-failure path, does not own
\* the mutex and has closed the file; under weak fairness nobody stays blocked
\* on the mutex, both threads return and main's joins complete.
C22_WriterReader ==
    /\ [](Cardinality(dopen) <= 1)
    /\ [](\A t \in dopen : dlock = t)
    /\ [](\A t \in DThreads :
            dpc[t] = "returned" => (dlock # t /\ t \notin dopen))
    /\ [](dmainpc = "exited" =>
            (dlock = NoThread /\ \A t \in DThreads : dpc[t] = "returned"))
    /\ <>[](dmainpc \in {"exit1", "exited"})

\* the reader got the mutex first, found no file and left by the error path;
\* the writer then wrote, and main finished
C22_Witness ==
    /\ dmainpc = "exited"
    /\ dfailed = {"reader_thread"}
    /\ dfile = <<HelloLine>>
    /\ dread = <<>>

====
